---------------------------- MODULE Spec2Model ----------------------------
(***************************************************************************)
(* A model of the Tencent Cloud API request signer (packages/capi):        *)
(*   utils.ts  getHost, getUrl, sign, tencentSign (V3), tencentSignV1      *)
(*   index.ts  class Capi: defaultOptions, constructor, request            *)
(*                                                                         *)
(* Representation.                                                         *)
(*  - A JS object is a function from its own keys to values; a key whose   *)
(*    value is undefined and a missing key read the same (Get).            *)
(*  - An option string is a TLA+ string; a template literal or a `+` is    *)
(*    the sequence of its parts.                                           *)
(*  - A parameter key is the sequence of its characters (the V1 signer     *)
(*    sorts keys, searches them for '_' and rewrites '_' to '.').          *)
(*  - A parameter value is a record [t, s]: its JS type and its text as a  *)
(*    sequence of pieces in which a leading '@' is a piece of its own.     *)
(*  - A nested parameter map is the function from the path of each leaf    *)
(*    (a sequence of keys) to the leaf.                                    *)
(*  - A digest is the text that names what was hashed, the algorithm and   *)
(*    the key: hashing is injective and nothing else is known of it.       *)
(*  - A value that may be undefined is None or Some(v).                    *)
(***************************************************************************)
EXTENDS Integers, Sequences, FiniteSets, TLC

VARIABLES
    options,      \* this.options, the same object as this.defaultOptions
    ctorOptions,  \* history: this.options as the constructor left it
    call,         \* the last call: its kind and its arguments
    dataAfter,    \* the caller's parameter object when the call has returned
    signed,       \* what the signer of the last call bound into the signature
    result,       \* what the signer of the last call returned (or that it threw)
    reqOption,    \* the transport descriptor handed to the HTTP client
    log,          \* the logger's emissions during the last call
    twin          \* the same call run with the debug flag inverted

vars == <<options, ctorOptions, call, dataAfter, signed, result, reqOption, log, twin>>

-----------------------------------------------------------------------------
(* Bounds of the model.                                                    *)

\* moment() returns an instant in 0..MaxTimestamp
MaxTimestamp == 1
\* Math.round(Math.random() * 65535) is drawn from 0..MaxNonce
MaxNonce == 1
\* instants per calendar day (the scale of the model's clock)
TicksPerDay == 1

-----------------------------------------------------------------------------
(* JS values and objects.                                                  *)

Undefined == "undefined"

Get(o, k) == IF k \in DOMAIN o THEN o[k] ELSE Undefined

\* a string-valued property read in a boolean context: undefined and '' are falsy
Truthy(v) == v # Undefined /\ v # ""

\* a boolean-valued property read in a boolean context
Flag(o, k) == k \in DOMAIN o /\ o[k] = TRUE

\* a number-valued property read in a boolean context
NonZero(o, k) == k \in DOMAIN o /\ o[k] # 0

\* v || d
OrElse(v, d) == IF Truthy(v) THEN v ELSE d

\* object-assign: copies every own key of source onto target
assign(target, source) ==
    [k \in DOMAIN target \cup DOMAIN source |->
        IF k \in DOMAIN source THEN source[k] ELSE target[k]]

\* String.prototype.toUpperCase on the method names in use
toUpperCase(s) ==
    CASE s = "post" -> "POST"
      [] s = "get"  -> "GET"
      [] OTHER      -> s

EmptyObject == [k \in {} |-> Undefined]

\* a variable or property that may hold undefined
None    == [defined |-> FALSE]
Some(v) == [defined |-> TRUE, v |-> v]

-----------------------------------------------------------------------------
(* Parameter values.                                                       *)

StrVal(pieces) == [t |-> "string", s |-> pieces]
NumVal(n)      == [t |-> "number", s |-> <<ToString(n)>>]
NaNVal         == [t |-> "number", s |-> <<"NaN">>]
NullVal        == [t |-> "null", s |-> <<"null">>]
UndefVal       == [t |-> "undefined", s |-> <<"undefined">>]

\* an option string stored as a parameter value
OptVal(v) == IF v = Undefined THEN UndefVal ELSE StrVal(<<v>>)

\* val === undefined || val === null || (typeof val === 'number' && isNaN(val))
IsBlank(val) ==
    \/ val.t = "undefined"
    \/ val.t = "null"
    \/ (val.t = "number" /\ val.s = <<"NaN">>)

\* val && val[0] === '@'
StartsWithAt(val) ==
    /\ val.t = "string"
    /\ val.s # <<>>
    /\ val.s[1] = "@"

-----------------------------------------------------------------------------
(* Strings as sequences of characters: order, search, replace.            *)

\* the characters of the keys in use, in ascending UTF-16 code unit order
CodeUnits ==
    << ".", "0", "1", "@", "A", "C", "F", "I", "L", "M", "N", "R", "S", "T", "V",
       "_", "a", "b", "c", "d", "e", "f", "g", "h", "i", "l", "m", "n", "o", "p",
       "q", "r", "s", "t", "u", "v", "x" >>

CodeUnit == [c \in {CodeUnits[i] : i \in 1..Len(CodeUnits)} |->
                CHOOSE i \in 1..Len(CodeUnits) : CodeUnits[i] = c]

\* a < b from character i on, as Array.prototype.sort's default comparison
\* orders two strings
RECURSIVE StringLessFrom(_, _, _)
StringLessFrom(a, b, i) ==
    IF i > Len(b) THEN FALSE
    ELSE IF i > Len(a) THEN TRUE
    ELSE IF a[i] = b[i] THEN StringLessFrom(a, b, i + 1)
    ELSE CodeUnit[a[i]] < CodeUnit[b[i]]

StringLess(a, b) == StringLessFrom(a, b, 1)

RECURSIVE InsertSorted(_, _)
InsertSorted(k, seq) ==
    IF seq = <<>> THEN <<k>>
    ELSE IF StringLess(k, Head(seq)) THEN <<k>> \o seq
    ELSE <<Head(seq)>> \o InsertSorted(k, Tail(seq))

\* Object.keys(o).sort()
RECURSIVE SortedKeys(_)
SortedKeys(S) ==
    IF S = {} THEN <<>>
    ELSE LET x == CHOOSE x \in S : TRUE
         IN  InsertSorted(x, SortedKeys(S \ {x}))

\* String.prototype.indexOf: the 0-based index of the first c, or -1
indexOf(str, c) ==
    IF \E i \in 1..Len(str) : str[i] = c
    THEN (CHOOSE i \in 1..Len(str) :
             str[i] = c /\ \A j \in 1..(i - 1) : str[j] # c) - 1
    ELSE -1

\* str.replace(/_/g, '.')
replaceUnderscores(str) ==
    [i \in 1..Len(str) |-> IF str[i] = "_" THEN "." ELSE str[i]]

\* str.slice(1)
slice1(str) == IF str = <<>> THEN <<>> ELSE Tail(str)

-----------------------------------------------------------------------------
(* Parameter maps.                                                         *)

K_Action          == <<"A","c","t","i","o","n">>
K_Version         == <<"V","e","r","s","i","o","n">>
K_Region          == <<"R","e","g","i","o","n">>
K_Nonce           == <<"N","o","n","c","e">>
K_Timestamp       == <<"T","i","m","e","s","t","a","m","p">>
K_SecretId        == <<"S","e","c","r","e","t","I","d">>
K_RequestClient   == <<"R","e","q","u","e","s","t","C","l","i","e","n","t">>
K_SignatureMethod == <<"S","i","g","n","a","t","u","r","e","M","e","t","h","o","d">>
K_Signature       == <<"S","i","g","n","a","t","u","r","e">>

\* obj.key = val on a nested parameter map (the leaves under key are replaced)
SetTop(p, key, val) ==
    [q \in {r \in DOMAIN p : r[1] # key} \cup {<<key>>} |->
        IF q = <<key>> THEN val ELSE p[q]]

\* const { Action, Version, ...restData } = data
RestData(data) ==
    [q \in {r \in DOMAIN data : r[1] \notin {K_Action, K_Version}} |-> data[q]]

\* data.key of a nested parameter map, for a key that holds a string
TopString(data, key) ==
    IF <<key>> \in DOMAIN data /\ data[<<key>>].t = "string"
    THEN data[<<key>>].s ELSE <<>>

\* the dotted key of a leaf: parent.child, parent.<index>
RECURSIVE DottedKey(_)
DottedKey(path) ==
    IF Len(path) = 1 THEN path[1]
    ELSE path[1] \o <<".">> \o DottedKey(Tail(path))

\* dotQs.flatten: a new flat map from dotted keys to the leaves
flatten(p) ==
    [k \in {DottedKey(q) : q \in DOMAIN p} |->
        p[CHOOSE q \in DOMAIN p : DottedKey(q) = k]]

\* flat[key], undefined when the key is missing
Lookup(flat, key) == IF key \in DOMAIN flat THEN flat[key] ELSE UndefVal

\* querystring's stringifyPrimitive: strings as they are, finite numbers in
\* decimal, everything else ''
stringifyPrimitive(val) ==
    CASE val.t = "string" -> val.s
      [] val.t = "number" /\ val.s # <<"NaN">> -> val.s
      [] OTHER -> <<>>

\* qs.stringify(obj): one key=value pair per own key; '' for undefined
qsStringify(obj) ==
    IF ~obj.defined THEN EmptyObject
    ELSE [k \in DOMAIN obj.v |-> stringifyPrimitive(obj.v[k])]

RECURSIVE QueryMembers(_, _)
QueryMembers(pairs, keys) ==
    IF keys = <<>> THEN <<>>
    ELSE <<"&">> \o Head(keys) \o <<"=">> \o pairs[Head(keys)]
         \o QueryMembers(pairs, Tail(keys))

\* the text of qs.stringify's pairs, joined by '&' (written in key order,
\* which stands for the object's own enumeration order)
QueryText(pairs) == slice1(QueryMembers(pairs, SortedKeys(DOMAIN pairs)))

\* JSON.stringify of one leaf: undefined is left out, NaN and null give null
JsonLeaf(val) ==
    CASE val.t = "string" -> <<"\"">> \o val.s \o <<"\"">>
      [] val.t = "number" /\ val.s # <<"NaN">> -> val.s
      [] OTHER -> <<"null">>

RECURSIVE JsonMembers(_, _)
JsonMembers(flat, keys) ==
    IF keys = <<>> THEN <<>>
    ELSE (IF flat[Head(keys)].t = "undefined" THEN <<>>
          ELSE <<",", "\"">> \o Head(keys) \o <<"\"", ":">>
               \o JsonLeaf(flat[Head(keys)]))
         \o JsonMembers(flat, Tail(keys))

\* JSON.stringify(flat); the members are written in key order, which stands
\* for the object's own enumeration order
JSONstringify(flat) ==
    <<"{">> \o slice1(JsonMembers(flat, SortedKeys(DOMAIN flat))) \o <<"}">>

-----------------------------------------------------------------------------
(* utils.ts                                                                *)

\* logger(topic, content): one emission to the console
logger(topic, content) == [topic |-> topic, content |-> content]

HostParams(opts) ==
    [ host        |-> Get(opts, "host"),
      path        |-> Get(opts, "path"),
      protocol    |-> Get(opts, "protocol"),
      baseHost    |-> Get(opts, "baseHost"),
      ServiceType |-> Get(opts, "ServiceType"),
      Region      |-> Get(opts, "Region") ]

\* getHost with the region segment written for V1 too
getHostWithRegion(hp, isV1) ==
    IF ~Truthy(hp.host)
    THEN <<hp.ServiceType, ".", hp.Region, ".", hp.baseHost>>
    ELSE <<hp.host>>

getHost(hp, isV1) ==
    IF ~Truthy(hp.host)
    THEN <<hp.ServiceType>> \o (IF isV1 THEN <<>> ELSE <<".", hp.Region>>)
         \o <<".", hp.baseHost>>
    ELSE <<hp.host>>

getUrl(hp, isV1) ==
    <<OrElse(hp.protocol, "https"), "://">> \o getHost(hp, isV1)
    \o <<OrElse(hp.path, "/")>>

\* Buffer.from(str, 'utf8')
BufferFrom(str) == str

\* crypto.createHmac(algorithm, secretKey).update(str).digest()
Hmac(algorithm, secretKey, str) ==
    <<"hmac-", algorithm, "(key=">> \o secretKey \o <<";msg=">> \o str \o <<")">>

\* crypto.createHash('sha256').update(str).digest('hex')
Sha256Hex(str) == <<"sha256(">> \o str \o <<")">>

\* the default of sign's third parameter: algorithm = 'sha256'
SignAlgorithm(algorithm) == IF algorithm = Undefined THEN "sha256" ELSE algorithm

\* sign(str, secretKey, algorithm = 'sha256')
sign(str, secretKey, algorithm) == Hmac(SignAlgorithm(algorithm), secretKey, str)

\* nowTime.toISOString().slice(0, 10)
IsoDate(now) == <<"day", ToString(now \div TicksPerDay)>>

\* what a call that threw leaves in `signed`, and a call not yet made
Unsigned ==
    [ scheme |-> "none", method |-> "", Host |-> <<>>, Timestamp |-> 0,
      payloadBytes |-> <<>>, algorithm |-> "", SecretId |-> "", SecretKey |-> "",
      flat |-> EmptyObject, qpairs |-> <<>> ]

\* tencentSign(payload, options) at instant now: what it returns (result), what
\* it emits (log), what it leaves in the caller's object (callerPayload) and
\* the values it bound into the signature (signed)
tencentSign(payload0, opts, now) ==
    LET hostParams == HostParams(opts)
        url == getUrl(hostParams, FALSE)
        Host == getHost(hostParams, FALSE)
        Timestamp == now
        date == IsoDate(now)
        Algorithm == "TC3-HMAC-SHA256"
        payload == flatten(payload0)
        HTTPRequestMethod == toUpperCase(OrElse(Get(opts, "method"), "POST"))
        CanonicalURI == "/"
        CanonicalQueryString == ""
        CanonicalHeaders ==
            <<"content-type:application/json\n", "host:">> \o Host \o <<"\n">>
        SignedHeaders == "content-type;host"
        HashedRequestPayload == Sha256Hex(JSONstringify(payload))
        CanonicalRequest ==
            <<HTTPRequestMethod, "\n", CanonicalURI, "\n", CanonicalQueryString, "\n">>
            \o CanonicalHeaders \o <<"\n", SignedHeaders, "\n">> \o HashedRequestPayload
        CredentialScope == date \o <<"/", Get(opts, "ServiceType"), "/tc3_request">>
        HashedCanonicalRequest == Sha256Hex(CanonicalRequest)
        StringToSign ==
            <<Algorithm, "\n", ToString(Timestamp), "\n">> \o CredentialScope
            \o <<"\n">> \o HashedCanonicalRequest
        SecretDate ==
            sign(date, BufferFrom(<<"TC3", Get(opts, "SecretKey")>>), Undefined)
        SecretService == sign(<<Get(opts, "ServiceType")>>, SecretDate, Undefined)
        SecretSigning == sign(<<"tc3_request">>, SecretService, Undefined)
        Signature == Hmac("sha256", SecretSigning, BufferFrom(StringToSign))
        Authorization ==
            <<Algorithm, " Credential=", Get(opts, "SecretId"), "/">> \o CredentialScope
            \o <<", SignedHeaders=", SignedHeaders, ", Signature=">> \o Signature
    IN  [ threw  |-> FALSE,
          result |-> [ url |-> url, payload |-> payload, Host |-> Host,
                       Authorization |-> Authorization, Timestamp |-> Timestamp ],
          log    |-> IF Flag(opts, "debug")
                     THEN << logger("CanonicalRequest", CanonicalRequest),
                             logger("StringToSign", StringToSign),
                             logger("Signature", Signature),
                             logger("Authorization", Authorization) >>
                     ELSE <<>>,
          callerPayload |-> payload0,
          signed |-> [ scheme |-> "V3", method |-> HTTPRequestMethod, Host |-> Host,
                       Timestamp |-> Timestamp,
                       payloadBytes |-> JSONstringify(payload),
                       algorithm |-> "sha256",
                       SecretId |-> Get(opts, "SecretId"),
                       SecretKey |-> Get(opts, "SecretKey"),
                       flat |-> payload, qpairs |-> <<>> ] ]

\* the forEach with the '@' test not guarded by the method
RECURSIVE CanonicalPairsSkipAtAlways(_, _, _)
CanonicalPairsSkipAtAlways(payload, keys, method) ==
    IF keys = <<>> THEN <<>>
    ELSE LET key0 == Head(keys)
             key  == IF indexOf(key0, "_") # 0 THEN replaceUnderscores(key0) ELSE key0
             val  == Lookup(payload, key)
         IN  (IF key0 = <<>> THEN <<>>
              ELSE IF StartsWithAt(val) THEN <<>>
              ELSE << [key |-> key, val |-> IF IsBlank(val) THEN <<>> ELSE val.s] >>)
             \o CanonicalPairsSkipAtAlways(payload, Tail(keys), method)

\* the forEach with the value read under the key as sorted, before the rewrite
RECURSIVE CanonicalPairsOwnValue(_, _, _)
CanonicalPairsOwnValue(payload, keys, method) ==
    IF keys = <<>> THEN <<>>
    ELSE LET key0 == Head(keys)
             key  == IF indexOf(key0, "_") # 0 THEN replaceUnderscores(key0) ELSE key0
             val  == Lookup(payload, key0)
         IN  (IF key0 = <<>> THEN <<>>
              ELSE IF method = "POST" /\ StartsWithAt(val) THEN <<>>
              ELSE << [key |-> key, val |-> IF IsBlank(val) THEN <<>> ELSE val.s] >>)
             \o CanonicalPairsOwnValue(payload, Tail(keys), method)

\* the body of tencentSignV1's keys.forEach: the key=value pairs of qstr
RECURSIVE CanonicalPairs(_, _, _)
CanonicalPairs(payload, keys, method) ==
    IF keys = <<>> THEN <<>>
    ELSE LET key0 == Head(keys)
             key  == IF indexOf(key0, "_") # 0 THEN replaceUnderscores(key0) ELSE key0
             val  == Lookup(payload, key)
         IN  (IF key0 = <<>> THEN <<>>
              ELSE IF method = "POST" /\ StartsWithAt(val) THEN <<>>
              ELSE << [key |-> key, val |-> IF IsBlank(val) THEN <<>> ELSE val.s] >>)
             \o CanonicalPairs(payload, Tail(keys), method)

\* qstr += `&${key}=${val}` over the pairs, then qstr.slice(1)
RECURSIVE PairsText(_)
PairsText(pairs) ==
    IF pairs = <<>> THEN <<>>
    ELSE <<"&">> \o Head(pairs).key \o <<"=">> \o Head(pairs).val
         \o PairsText(Tail(pairs))

\* the standard fields tencentSignV1 writes into the object it was given
InjectV1(payload0, opts, now, Nonce) ==
    LET p1 == SetTop(payload0, K_Region, OptVal(Get(opts, "Region")))
        p2 == SetTop(p1, K_Nonce, NumVal(Nonce))
        p3 == SetTop(p2, K_Timestamp, NumVal(now))
        p4 == SetTop(p3, K_SecretId, OptVal(Get(opts, "SecretId")))
        p5 == SetTop(p4, K_RequestClient, StrVal(<<"SDK_NODEJS_v0.0.1">>))
    IN  IF Get(opts, "SignatureMethod") = "sha256"
        THEN SetTop(p5, K_SignatureMethod, StrVal(<<"HmacSHA256">>))
        ELSE p5

\* tencentSignV1(payload, options) at instant now with the nonce drawn
tencentSignV1(payload0, opts, now, Nonce) ==
    LET hostParams == HostParams(opts)
        url == getUrl(hostParams, TRUE)
        Host == getHost(hostParams, TRUE)
        Timestamp == now
        mutated == InjectV1(payload0, opts, now, Nonce)
        payload == flatten(mutated)
        keys == SortedKeys(DOMAIN payload)
        method == toUpperCase(OrElse(Get(opts, "method"), "POST"))
        qpairs == CanonicalPairs(payload, keys, method)
        qstr == slice1(PairsText(qpairs))
        Signature ==
            <<"base64(">>
            \o sign(<<method>> \o Host \o <<Get(opts, "path"), "?">> \o qstr,
                    BufferFrom(<<Get(opts, "SecretKey")>>),
                    Get(opts, "SignatureMethod"))
            \o <<")">>
        signedPayload ==
            assign(payload, [k \in {K_Signature} |-> StrVal(Signature)])
    IN  IF Get(opts, "SecretKey") = Undefined
        THEN \* Buffer.from(undefined, 'utf8') throws a TypeError
             [ threw |-> TRUE, log |-> <<>>, callerPayload |-> mutated,
               signed |-> Unsigned ]
        ELSE [ threw  |-> FALSE,
               result |-> [ url |-> url, method |-> method,
                            signPath |-> qsStringify(Some(signedPayload)) ],
               log    |-> <<>>,
               callerPayload |-> mutated,
               signed |-> [ scheme |-> "V1", method |-> method, Host |-> Host,
                            Timestamp |-> Timestamp,
                            payloadBytes |-> <<>>,
                            algorithm |-> SignAlgorithm(Get(opts, "SignatureMethod")),
                            SecretId |-> Get(opts, "SecretId"),
                            SecretKey |-> Get(opts, "SecretKey"),
                            flat |-> payload, qpairs |-> qpairs ] ]

-----------------------------------------------------------------------------
(* index.ts: class Capi                                                    *)

defaultOptions ==
    [ path |-> "/", method |-> "POST", protocol |-> "https",
      baseHost |-> "api.qcloud.com", ServiceType |-> "", SecretId |-> "",
      SecretKey |-> "", Region |-> "ap-guangzhou", SignatureMethod |-> "sha1" ]

\* constructor: this.options = assign(this.defaultOptions, options); the two
\* fields name one object from then on
Constructor(opts) == assign(defaultOptions, opts)

\* the descriptor request() starts from
EmptyReqOption ==
    [ url |-> <<"">>, method |-> "", json |-> TRUE, strictSSL |-> FALSE,
      headers |-> None, body |-> None, form |-> None, query |-> None,
      timeout |-> None ]

\* data.key as the destructuring reads it
Field(data, key) == IF <<key>> \in DOMAIN data THEN data[<<key>>] ELSE UndefVal

\* the V3 branch of request(): the descriptor built from tencentSign's result
ReqOptionV3(r, data, opts, thisOptions) ==
    LET Action == Field(data, K_Action)
        Version == TopString(data, K_Version)
        base == [ h \in {"Content-Type", "Authorization", "Host", "X-TC-Action",
                         "X-TC-Version", "X-TC-Timestamp", "X-TC-Region"} |->
                  CASE h = "Content-Type"   -> <<"application/json">>
                    [] h = "Authorization"  -> r.Authorization
                    [] h = "Host"           -> r.Host
                    [] h = "X-TC-Action"    -> IF IsBlank(Action) THEN <<>> ELSE Action.s
                    [] h = "X-TC-Version"   -> IF Version # <<>> THEN Version
                                               ELSE <<"2018-03-21">>
                    [] h = "X-TC-Timestamp" -> <<ToString(r.Timestamp)>>
                    [] h = "X-TC-Region"    -> <<Get(thisOptions, "Region")>> ]
        withToken == IF Truthy(Get(thisOptions, "Token"))
                     THEN assign(base, [h \in {"X-TC-Token"} |->
                                            <<Get(thisOptions, "Token")>>])
                     ELSE base
        withClient == IF Truthy(Get(opts, "RequestClient"))
                      THEN assign(withToken, [h \in {"X-TC-RequestClient"} |->
                                                 <<Get(opts, "RequestClient")>>])
                      ELSE withToken
    IN  [ EmptyReqOption EXCEPT !.url = r.url, !.method = "POST",
                                !.headers = Some(withClient),
                                !.body = Some(r.payload) ]

\* what `const { url, method, payload } = tencentSignV1(...)` binds payload to:
\* the result has no such property
V1ResultPayload(r) == None

\* the V1 branch of request(): the descriptor built from tencentSignV1's result
ReqOptionV1(r) ==
    LET payload == V1ResultPayload(r)
    IN  IF r.method = "POST"
        THEN [ EmptyReqOption EXCEPT !.url = r.url, !.method = r.method,
                                     !.form = payload ]
        ELSE [ EmptyReqOption EXCEPT
                 !.url = r.url \o <<"?">> \o QueryText(qsStringify(payload)),
                 !.method = r.method,
                 !.query = Some(qsStringify(payload)) ]

\* the timeout assignment moved into the debug block below it
WithTimeoutWhenDebug(built, merged) ==
    IF Flag(merged, "debug") /\ NonZero(merged, "timeout")
    THEN [built EXCEPT !.timeout = Some(merged["timeout"])]
    ELSE built

\* if (options.timeout) reqOption.timeout = options.timeout
WithTimeout(built, merged) ==
    IF NonZero(merged, "timeout")
    THEN [built EXCEPT !.timeout = Some(merged["timeout"])]
    ELSE built

\* request(data, opts = this.defaultOptions, isV3 = false) on an instance whose
\* options object is thisOptions; given says whether opts was passed
request(thisOptions, data, given, optsArg, isV3, now, Nonce) ==
    LET opts == IF given THEN optsArg ELSE thisOptions
        merged == assign(thisOptions, opts)
        useV3 == isV3 \/ Flag(opts, "isV3")
        s == IF useV3 THEN tencentSign(RestData(data), merged, now)
             ELSE tencentSignV1(data, merged, now, Nonce)
        built == IF useV3 THEN ReqOptionV3(s.result, data, opts, merged)
                 ELSE ReqOptionV1(s.result)
        timed == WithTimeout(built, merged)
    IN  [ options   |-> merged,
          threw     |-> s.threw,
          result    |-> IF s.threw THEN None ELSE Some(s.result),
          dataAfter |-> IF useV3 THEN data ELSE s.callerPayload,
          signed    |-> s.signed,
          reqOption |-> IF s.threw THEN None ELSE Some(timed),
          log       |-> IF s.threw THEN s.log
                        ELSE s.log \o (IF Flag(merged, "debug")
                                       THEN <<logger("Request Option", timed)>>
                                       ELSE <<>>) ]

-----------------------------------------------------------------------------
(* The inputs the calls are made with.                                     *)

K_Limit   == <<"L","i","m","i","t">>
K_Filters == <<"F","i","l","t","e","r","s">>
K_file    == <<"f","i","l","e">>

\* { Action, Version, Limit: 5, Filters: ['v'] }
DataPlain ==
    ( << K_Action >>         :> StrVal(<<"DescribeX">>) @@
      << K_Version >>        :> StrVal(<<"2018-04-16">>) @@
      << K_Limit >>          :> NumVal(5) @@
      << K_Filters, <<"0">> >> :> StrVal(<<"v">>) )

\* { Action, file: '@f', a_b: '@g', _c_d: 'x', '': '@e' }
DataUpload ==
    ( << K_Action >>        :> StrVal(<<"UploadX">>) @@
      << K_file >>          :> StrVal(<<"@", "f">>) @@
      << <<"a","_","b">> >> :> StrVal(<<"@", "g">>) @@
      << <<"_","c","_","d">> >> :> StrVal(<<"x">>) @@
      << <<>> >>            :> StrVal(<<"@", "e">>) )

\* { Action, a: { b: 'z' }, a_b: 'y', n: null, u: undefined, x: NaN }
DataBlank ==
    ( << K_Action >>          :> StrVal(<<"ModifyX">>) @@
      << <<"a">>, <<"b">> >>  :> StrVal(<<"z">>) @@
      << <<"a","_","b">> >>   :> StrVal(<<"y">>) @@
      << <<"n">> >>           :> NullVal @@
      << <<"u">> >>           :> UndefVal @@
      << <<"x">> >>           :> NaNVal )

Datas == {DataPlain, DataUpload, DataBlank}

Credentials == [ServiceType |-> "cvm", SecretId |-> "AKID", SecretKey |-> "key"]

\* the objects new Capi(...) is given
CtorArgs ==
    { Credentials,
      assign(Credentials, [debug |-> TRUE, timeout |-> 5]),
      [ServiceType |-> "cvm"] }

\* the objects request() is given as opts
OptsArgs ==
    { EmptyObject,
      [isV3 |-> TRUE, RequestClient |-> "my-app", Token |-> "tok"],
      [method |-> "get"],
      [host |-> "h.example.com"],
      [SignatureMethod |-> "sha256"],
      [debug |-> TRUE] }

\* the objects tencentSign and tencentSignV1 are given as options by a caller
\* that does not go through Capi
SignerOptions ==
    { assign(defaultOptions, Credentials),
      assign(Credentials, [Region |-> "ap-guangzhou", baseHost |-> "api.qcloud.com",
                           path |-> "/", debug |-> TRUE]),
      assign(defaultOptions,
             assign(Credentials, [host |-> "h.example.com", method |-> "get",
                                  SignatureMethod |-> "sha256"])),
      [ServiceType |-> "cvm", Region |-> "ap-guangzhou", SecretId |-> "AKID",
       baseHost |-> "api.qcloud.com", path |-> "/"] }

Instants == 0..MaxTimestamp
Nonces   == 0..MaxNonce

\* o with its debug flag set to b
WithDebug(o, b) == assign(o, [debug |-> b])

-----------------------------------------------------------------------------
(* The state machine.                                                      *)

NoCall ==
    [ kind |-> "new", data |-> EmptyObject, given |-> FALSE, opts |-> EmptyObject,
      isV3 |-> FALSE, now |-> 0, Nonce |-> 0 ]

NoTwin == [ threw |-> FALSE, result |-> None, reqOption |-> None, log |-> <<>> ]

Init ==
    /\ \E arg \in CtorArgs : options = Constructor(arg)
    /\ ctorOptions = options
    /\ call = NoCall
    /\ dataAfter = EmptyObject
    /\ signed = Unsigned
    /\ result = None
    /\ reqOption = None
    /\ log = <<>>
    /\ twin = NoTwin

\* no call is under way: the last call's locals have been discarded
Idle == call.kind = "new"

\* capi.request(data, opts, isV3), or capi.request(data) when not given
Request(data, given, optsArg, isV3, now, Nonce) ==
    /\ Idle
    /\ (~given => optsArg = EmptyObject)
    /\ \E r \in {request(options, data, given, optsArg, isV3, now, Nonce)} :
        \E twinOptions \in {WithDebug(options, ~Flag(r.options, "debug"))},
           twinOpts \in {WithDebug(optsArg, ~Flag(r.options, "debug"))} :
        \E t \in {request(twinOptions, data, given, twinOpts, isV3, now, Nonce)} :
            /\ options' = r.options
            /\ call' = [ kind |-> "request", data |-> data, given |-> given,
                         opts |-> IF given THEN optsArg ELSE EmptyObject,
                         isV3 |-> isV3, now |-> now, Nonce |-> Nonce ]
            /\ dataAfter' = r.dataAfter
            /\ signed' = r.signed
            /\ result' = r.result
            /\ reqOption' = r.reqOption
            /\ log' = r.log
            /\ twin' = [ threw |-> t.threw, result |-> t.result,
                         reqOption |-> t.reqOption, log |-> t.log ]
            /\ UNCHANGED ctorOptions

\* a direct call of the exported tencentSign(payload, options)
SignV3(payload, opts, now) ==
    /\ Idle
    /\ \E twinOpts \in {WithDebug(opts, ~Flag(opts, "debug"))} :
        \E r \in {tencentSign(payload, opts, now)},
           t \in {tencentSign(payload, twinOpts, now)} :
            /\ call' = [ kind |-> "tencentSign", data |-> payload, given |-> TRUE,
                         opts |-> opts, isV3 |-> TRUE, now |-> now, Nonce |-> 0 ]
            /\ dataAfter' = r.callerPayload
            /\ signed' = r.signed
            /\ result' = Some(r.result)
            /\ reqOption' = None
            /\ log' = r.log
            /\ twin' = [ threw |-> t.threw, result |-> Some(t.result),
                         reqOption |-> None, log |-> t.log ]
            /\ UNCHANGED <<options, ctorOptions>>

\* a direct call of the exported tencentSignV1(payload, options)
SignV1(payload, opts, now, Nonce) ==
    /\ Idle
    /\ \E twinOpts \in {WithDebug(opts, ~Flag(opts, "debug"))} :
        \E r \in {tencentSignV1(payload, opts, now, Nonce)},
           t \in {tencentSignV1(payload, twinOpts, now, Nonce)} :
            /\ call' = [ kind |-> "tencentSignV1", data |-> payload, given |-> TRUE,
                         opts |-> opts, isV3 |-> FALSE, now |-> now, Nonce |-> Nonce ]
            /\ dataAfter' = r.callerPayload
            /\ signed' = r.signed
            /\ result' = IF r.threw THEN None ELSE Some(r.result)
            /\ reqOption' = None
            /\ log' = r.log
            /\ twin' = [ threw |-> t.threw,
                         result |-> IF t.threw THEN None ELSE Some(t.result),
                         reqOption |-> None, log |-> t.log ]
            /\ UNCHANGED <<options, ctorOptions>>

\* the call has returned (request: the descriptor has gone to the HTTP client)
\* and its arguments, locals and results are dropped; the instance stays
Return ==
    /\ ~Idle
    /\ call' = NoCall
    /\ dataAfter' = EmptyObject
    /\ signed' = Unsigned
    /\ result' = None
    /\ reqOption' = None
    /\ log' = <<>>
    /\ twin' = NoTwin
    /\ UNCHANGED <<options, ctorOptions>>

Next ==
    \/ \E data \in Datas, given \in BOOLEAN, optsArg \in OptsArgs, isV3 \in BOOLEAN,
          now \in Instants, Nonce \in Nonces :
          Request(data, given, optsArg, isV3, now, Nonce)
    \/ \E payload \in Datas, opts \in SignerOptions, now \in Instants :
          SignV3(payload, opts, now)
    \/ \E payload \in Datas, opts \in SignerOptions, now \in Instants,
          Nonce \in Nonces :
          SignV1(payload, opts, now, Nonce)
    \/ Return

Spec == Init /\ [][Next]_vars

-----------------------------------------------------------------------------
(* Properties.                                                             *)

\* the options the last call signed with
EffectiveOptions == IF call.kind = "request" THEN options ELSE call.opts

SignedV1 == signed.scheme = "V1"
SignedV3 == signed.scheme = "V3"

Pairs == {signed.qpairs[i] : i \in 1..Len(signed.qpairs)}

SameOpt(a, b) == a.defined = b.defined /\ (a.defined => a.v = b.v)

\* the host of a URL protocol://host/path
UrlHost(url) == SubSeq(url, 3, Len(url) - 1)

\* the text a value has in the canonical query string
Rendered(val) == IF IsBlank(val) THEN <<>> ELSE val.s

\* the name the V1 loop emits a key under: a key that does not start with '_'
\* has every '_' replaced by '.'
EmittedName(k) ==
    IF k # <<>> /\ k[1] # "_"
    THEN [i \in 1..Len(k) |-> IF k[i] = "_" THEN "." ELSE k[i]]
    ELSE k

\* C1: on the V1 path the descriptor carries every flattened parameter and
\* Signature, in the form body for POST and in the query string otherwise.
C1_V1DescriptorCarriesParameters ==
    (call.kind = "request" /\ SignedV1 /\ reqOption.defined) =>
        LET sent == IF reqOption.v.method = "POST" THEN reqOption.v.form
                    ELSE reqOption.v.query
        IN  /\ sent.defined
            /\ \A k \in DOMAIN signed.flat \cup {K_Signature} : k \in DOMAIN sent.v

\* C2: a request signs with the constructor's options overridden by its own
\* opts alone, and takes the V3 path only on its own isV3.
C2_NoStateSharedAcrossCalls ==
    call.kind = "request" =>
        /\ options = assign(ctorOptions, call.opts)
        /\ (signed.scheme # "none" =>
                (SignedV3 <=> (call.isV3 \/ Flag(call.opts, "isV3"))))

\* C3: when a signer or request has returned, the caller's parameter object
\* holds the keys and values it held before.
C3_CallerParametersUnchanged ==
    call.kind # "new" => dataAfter = call.data

\* C4: a call with a missing or empty SecretId or SecretKey fails and produces
\* no signature, signer result or descriptor.
C4_FailsFastWithoutCredentials ==
    ( /\ call.kind # "new"
      /\ \/ ~Truthy(Get(EffectiveOptions, "SecretId"))
         \/ ~Truthy(Get(EffectiveOptions, "SecretKey")) )
    => (~result.defined /\ ~reqOption.defined /\ signed.scheme = "none")

\* C5: the same call with the debug flag inverted returns the same signer
\* result and the same descriptor (and throws alike).
C5_DebugDoesNotAlterOutput ==
    call.kind # "new" =>
        /\ twin.threw = ~result.defined
        /\ SameOpt(twin.result, result)
        /\ SameOpt(twin.reqOption, reqOption)

\* C5 witness: a V3 request that logged under debug and whose twin logged nothing.
C5_Witness ==
    /\ call.kind = "request"
    /\ SignedV3
    /\ reqOption.defined
    /\ reqOption.v.timeout.defined
    /\ Len(log) > Len(twin.log)
    /\ \E i \in 1..Len(log) : log[i].topic = "Signature"

\* C6 as stated: a parameter whose value starts with '@' has no pair under
\* POST and the pair key=value under any other method.
C6_AtValuesAsStated ==
    SignedV1 =>
        \A k \in DOMAIN signed.flat :
            StartsWithAt(signed.flat[k]) =>
                IF signed.method = "POST"
                THEN \A p \in Pairs : p.key # k
                ELSE [key |-> k, val |-> signed.flat[k].s] \in Pairs

\* C6 amended: a parameter whose value starts with '@' has no pair under POST;
\* under GET it has the pair key=value when its key is not empty and is
\* emitted under its own name (it has no '_', or it starts with '_').
C6_AtValues ==
    SignedV1 =>
        \A k \in DOMAIN signed.flat :
            StartsWithAt(signed.flat[k]) =>
                IF signed.method = "POST"
                THEN \A p \in Pairs : p.key # k
                ELSE (k # <<>> /\ EmittedName(k) = k) =>
                        [key |-> k, val |-> signed.flat[k].s] \in Pairs

\* C6 witness: under GET the upload parameter file=@f is in the query string,
\* and the '@' parameter a_b is among the parameters.
C6_Witness ==
    /\ SignedV1
    /\ signed.method = "GET"
    /\ K_file \in DOMAIN signed.flat
    /\ StartsWithAt(signed.flat[K_file])
    /\ [key |-> K_file, val |-> signed.flat[K_file].s] \in Pairs
    /\ \E k \in DOMAIN signed.flat : StartsWithAt(signed.flat[k]) /\ EmittedName(k) # k

\* C7: the V1 signature is HMAC-SHA1 with no SignatureMethod injected whenever
\* the configured SignatureMethod is not 'sha256', and is HMAC-SHA256 exactly
\* when the payload carries SignatureMethod = HmacSHA256.
C7_V1AlgorithmDefaultsToSha1 ==
    SignedV1 =>
        /\ (Get(EffectiveOptions, "SignatureMethod") # "sha256" =>
                /\ signed.algorithm = "sha1"
                /\ K_SignatureMethod \notin DOMAIN signed.flat)
        /\ (signed.algorithm = "sha256" <=>
                /\ K_SignatureMethod \in DOMAIN signed.flat
                /\ signed.flat[K_SignatureMethod] = StrVal(<<"HmacSHA256">>))

\* C8: without a host override the V3 host is ServiceType.Region.baseHost and
\* the V1 host is ServiceType.baseHost; with one it is the override; and the
\* host of the returned URL is the host bound into the signature.
C8_HostResolution ==
    (call.kind # "new" /\ result.defined) =>
        LET o == EffectiveOptions
        IN  /\ signed.Host =
                  IF Truthy(Get(o, "host")) THEN <<Get(o, "host")>>
                  ELSE IF SignedV3
                  THEN <<Get(o, "ServiceType"), ".", Get(o, "Region"), ".",
                         Get(o, "baseHost")>>
                  ELSE <<Get(o, "ServiceType"), ".", Get(o, "baseHost")>>
            /\ UrlHost(result.v.url) = signed.Host

\* C8 witness: a V1 call with no host override, signed for cvm.api.qcloud.com.
C8_Witness ==
    /\ SignedV1
    /\ result.defined
    /\ ~Truthy(Get(EffectiveOptions, "host"))
    /\ signed.Host = <<"cvm", ".", "api.qcloud.com">>

\* C9 as stated: every non-empty key not '@'-skipped under POST appears under
\* its own name with the value the flattened map holds for it, rendered empty
\* only when that value is undefined, null or NaN.
C9_KeysAsStated ==
    SignedV1 =>
        \A k \in DOMAIN signed.flat \ {<<>>} :
            ~(signed.method = "POST" /\ StartsWithAt(signed.flat[k])) =>
                /\ [key |-> k, val |-> Rendered(signed.flat[k])] \in Pairs
                /\ (Rendered(signed.flat[k]) = <<>> => IsBlank(signed.flat[k]))

\* C9 amended: every non-empty key is emitted under its own name when it has
\* no '_' or starts with '_', and otherwise with every '_' replaced by '.'; it
\* is paired with the value the flattened map holds under the emitted name
\* (undefined when it holds none), unless that value starts with '@' under
\* POST; the value is rendered empty only when it is undefined, null, NaN or
\* the empty string; and the query string holds no other pair.
C9_Keys ==
    SignedV1 =>
        LET skipped(v) == signed.method = "POST" /\ StartsWithAt(v)
            looked(k) == Lookup(signed.flat, EmittedName(k))
            pair(k) == [key |-> EmittedName(k), val |-> Rendered(looked(k))]
            keys == DOMAIN signed.flat \ {<<>>}
        IN  /\ \A k \in keys : skipped(looked(k)) \/ pair(k) \in Pairs
            /\ \A p \in Pairs : \E k \in keys : ~skipped(looked(k)) /\ p = pair(k)
            /\ \A k \in keys :
                   pair(k).val = <<>> => (IsBlank(looked(k)) \/ looked(k).s = <<>>)

\* C9 witness: a_b = 'y' is emitted as a.b with the value 'z' held under a.b,
\* and a null value is rendered empty.
C9_Witness ==
    /\ SignedV1
    /\ <<"a","_","b">> \in DOMAIN signed.flat
    /\ signed.flat[<<"a","_","b">>].s = <<"y">>
    /\ [key |-> <<"a",".","b">>, val |-> <<"z">>] \in Pairs
    /\ \A p \in Pairs : p.key # <<"a","_","b">>
    /\ [key |-> <<"n">>, val |-> <<>>] \in Pairs

\* C10: on the V3 path the method, host, timestamp and payload bound into the
\* signature are the ones placed in the descriptor.
C10_V3SignedValuesAreSent ==
    (call.kind = "request" /\ SignedV3 /\ reqOption.defined) =>
        /\ signed.method = reqOption.v.method
        /\ signed.Host = reqOption.v.headers.v["Host"]
        /\ signed.Host = UrlHost(reqOption.v.url)
        /\ <<ToString(signed.Timestamp)>> = reqOption.v.headers.v["X-TC-Timestamp"]
        /\ signed.payloadBytes = JSONstringify(reqOption.v.body.v)

=============================================================================
